---- MODULE Spec2Model ----
(***************************************************************************)
(* A model of the retry proxy for Durable Objects (src/src/retry-proxy.ts). *)
(*                                                                         *)
(* The file holds two versions of the retry engine: the first              *)
(* (lines 1-184) and the second (lines 186-361).  The variable `variant`   *)
(* says which of the two a behaviour runs.                                 *)
(*                                                                         *)
(* A logical call is an async function: it runs from one await to the      *)
(* next without interruption, so each action below is the code between     *)
(* two awaits (the await of the remote method, the await of                *)
(* scheduler.wait).                                                        *)
(***************************************************************************)
EXTENDS Integers, Sequences, FiniteSets, TLC

(***************************************************************************)
(* Bounds of the model.                                                    *)
(***************************************************************************)
\* the largest maxAttempts an options object carries
MaxAttempts == 3
\* the number of logical calls (invocations of a wrapped method) that can be
\* in flight together
MaxCalls == 2
\* the number of wrapped stubs obtained with get / getByName
MaxWrapped == 1

Calls == 1..MaxCalls

(***************************************************************************)
(* Program constants.                                                      *)
(***************************************************************************)
DEFAULT_maxAttempts == 3
DEFAULT_baseDelayMs == 100
DEFAULT_maxDelayMs == 3000

DEFAULT_OPTIONS ==
    [maxAttempts |-> DEFAULT_maxAttempts,
     baseDelayMs |-> DEFAULT_baseDelayMs,
     maxDelayMs  |-> DEFAULT_maxDelayMs]

\* the literal of msg.includes(...), as a sequence of words
OverloadedLiteral == <<"Durable", "Object", "is", "overloaded">>

(***************************************************************************)
(* Thrown values.  An Error is a record with its message (a sequence of    *)
(* words) and the markers set on it: props is a function from the names    *)
(* of the markers the error carries to their boolean values, so a marker   *)
(* that was never set is absent from its domain.  by is the invocation     *)
(* that raised the value (its identity).  null and undefined can be        *)
(* thrown too.                                                             *)
(***************************************************************************)
NoProps == [x \in {} |-> TRUE]

MkError(message, props) ==
    [type |-> "Error", message |-> message, props |-> props, by |-> <<0, 0>>]

ThrownNull == [type |-> "null", message |-> <<>>, props |-> NoProps, by |-> <<0, 0>>]
ThrownUndefined ==
    [type |-> "undefined", message |-> <<>>, props |-> NoProps, by |-> <<0, 0>>]

\* the value of `let lastError: unknown;` before any assignment
Unset == [type |-> "undefined", message |-> <<>>, props |-> NoProps, by |-> <<0, 0>>]

\* Boolean(e?.marker)
Truthy(e, marker) ==
    /\ e.type = "Error"
    /\ marker \in DOMAIN e.props
    /\ e.props[marker]

\* String(err): "<name>: <message>" for an Error, "null", "undefined"
String(err) ==
    CASE err.type = "Error" ->
            IF err.message = <<>> THEN <<"Error">> ELSE <<"Error:">> \o err.message
      [] err.type = "null" -> <<"null">>
      [] OTHER -> <<"undefined">>

\* s.includes(sub)
Includes(s, sub) ==
    \E i \in 0..(Len(s) - Len(sub)) : SubSeq(s, i + 1, i + Len(sub)) = sub

\* s.startsWith(prefix)
StartsWith(s, prefix) ==
    /\ Len(s) >= Len(prefix)
    /\ SubSeq(s, 1, Len(prefix)) = prefix

\* a classifier that looks at the markers only
isErrorRetryableMarkersOnly(err) ==
    /\ Truthy(err, "retryable")
    /\ ~Truthy(err, "overloaded")

isErrorRetryable(err) ==
    /\ Truthy(err, "retryable")
    /\ ~Truthy(err, "overloaded")
    /\ ~Includes(String(err), OverloadedLiteral)

(***************************************************************************)
(* Numbers.  A JavaScript number is a double: 2 ** attempt is exact up to  *)
(* 2 ** 1023 and Infinity from 2 ** 1024 on, Infinity * 0 is NaN, and      *)
(* Math.min and Math.floor hand a NaN on.  A number is modelled as         *)
(*   Fin(n)  the integer n,                                                *)
(*   Big     a finite number above 2 ^ ExactExp (whatever its value),      *)
(*   Inf     Infinity,                                                     *)
(*   NaN.                                                                  *)
(* Every maxDelayMs drawn lies below 2 ^ ExactExp, so Math.min of a Big    *)
(* number and maxDelayMs is maxDelayMs.                                    *)
(***************************************************************************)
\* powers of two up to this exponent are computed exactly
ExactExp == 12
\* the largest exponent of a finite double
DoubleMaxExp == 1023

Fin(n) == [k |-> "fin", v |-> n]
Big == [k |-> "big", v |-> 0]
Inf == [k |-> "inf", v |-> 0]
NaN == [k |-> "nan", v |-> 0]

\* 2 ** attempt
Pow2(attempt) ==
    IF attempt > DoubleMaxExp THEN Inf
    ELSE IF attempt > ExactExp THEN Big
    ELSE Fin(2 ^ attempt)

\* x * n for a number x and an integer n >= 0
Times(x, n) ==
    CASE x.k = "fin" -> Fin(x.v * n)
      [] x.k = "big" -> IF n = 0 THEN Fin(0) ELSE Big
      [] x.k = "inf" -> IF n = 0 THEN NaN ELSE Inf
      [] OTHER -> NaN

\* Math.min(x, n) for a number x and an integer n < 2 ^ ExactExp
MathMin(x, n) ==
    CASE x.k = "fin" -> Fin(IF x.v < n THEN x.v ELSE n)
      [] x.k = "nan" -> NaN
      [] OTHER -> Fin(n)

\* the values Math.floor(Math.random() * bound) can take: Math.random() is
\* any double in [0, 1)
FloorRandomTimes(bound) ==
    IF bound.k = "nan" THEN {NaN}
    ELSE IF bound.v = 0 THEN {Fin(0)}
    ELSE {Fin(n) : n \in 0..(bound.v - 1)}

\* the set of the values jitterBackoff(attempt, baseDelayMs, maxDelayMs) can return
jitterBackoff(attempt, baseDelayMs, maxDelayMs) ==
    LET attemptUpperBoundMs == MathMin(Times(Pow2(attempt), baseDelayMs), maxDelayMs)
    IN  FloorRandomTimes(attemptUpperBoundMs)

(***************************************************************************)
(* The options a caller passes to withRetry.                               *)
(*                                                                         *)
(* An options object is a function from the names of the options it        *)
(* carries to their values; isRetryable is the name of a predicate.        *)
(***************************************************************************)
\* const FAST_RETRY = { baseDelayMs: 1, maxDelayMs: 10 } of the tests
FAST_baseDelayMs == 1
FAST_maxDelayMs == 10

\* the caller's predicates: vi.fn().mockReturnValue(true), one that always
\* returns false, and the predicate of the worker example
Predicates == {"always", "never", "temporary"}

TemporaryPrefix == <<"TemporaryError:">>

\* predicate(err), for the caller's predicates and for isErrorRetryable
\* itself (the second version's default predicate)
CallPredicate(predicate, err) ==
    CASE predicate = "always" -> TRUE
      [] predicate = "never" -> FALSE
      [] predicate = "temporary" ->
            Truthy(err, "remote") /\ StartsWith(err.message, TemporaryPrefix)
      [] OTHER -> isErrorRetryable(err)

\* { maxAttempts?, isRetryable?, ...FAST_RETRY }: maxAttempts = 0 and
\* predicate = "none" stand for an option that is left out
MkOptions(maxAttempts, predicate) ==
    [k \in {"baseDelayMs", "maxDelayMs"}
           \cup (IF maxAttempts = 0 THEN {} ELSE {"maxAttempts"})
           \cup (IF predicate = "none" THEN {} ELSE {"isRetryable"}) |->
        CASE k = "baseDelayMs" -> FAST_baseDelayMs
          [] k = "maxDelayMs" -> FAST_maxDelayMs
          [] k = "maxAttempts" -> maxAttempts
          [] OTHER -> predicate]

\* withRetry(namespace): no options at all
NoOptions == [k \in {} |-> 0]

ValidOptions ==
    {NoOptions} \cup
    {MkOptions(n, p) : n \in 0..MaxAttempts, p \in Predicates \cup {"none"}}

\* the options under which several logical calls are run together
ConcurrentOptions == {MkOptions(2, "none")}

\* a merge in which the defaults override what the caller gave:
\* { ...options, ...DEFAULT_OPTIONS, isRetryable: ... }
MergeOptionsDefaultsLast(v, o) ==
    [k \in {"maxAttempts", "baseDelayMs", "maxDelayMs", "isRetryable"} |->
        CASE k = "isRetryable" ->
                IF "isRetryable" \in DOMAIN o THEN o.isRetryable
                ELSE IF v = 1 THEN "none" ELSE "isErrorRetryable"
          [] OTHER -> DEFAULT_OPTIONS[k]]

\* const opts = { ...DEFAULT_OPTIONS, ...options, isRetryable: ... }
MergeOptions(v, o) ==
    [k \in {"maxAttempts", "baseDelayMs", "maxDelayMs", "isRetryable"} |->
        CASE k = "isRetryable" ->
                IF "isRetryable" \in DOMAIN o THEN o.isRetryable
                ELSE IF v = 1 THEN "none" ELSE "isErrorRetryable"
          [] OTHER -> IF k \in DOMAIN o THEN o[k] ELSE DEFAULT_OPTIONS[k]]

(***************************************************************************)
(* The errors a remote method rejects with.                                *)
(***************************************************************************)
RetryableError ==
    MkError(<<"transient">>, [m \in {"retryable"} |-> TRUE])
OverloadedError ==
    MkError(<<"overloaded">>, [m \in {"retryable", "overloaded"} |-> TRUE])
OverloadedMessageError ==
    MkError(<<"Durable", "Object", "is", "overloaded", ".", "Requests", "queued">>,
            [m \in {"retryable"} |-> TRUE])
NonRetryableError ==
    MkError(<<"fatal">>, NoProps)
TemporaryError ==
    MkError(<<"TemporaryError:", "Database", "is", "locked">>,
            [m \in {"remote"} |-> TRUE])

Rejections ==
    {RetryableError, OverloadedError, OverloadedMessageError,
     NonRetryableError, TemporaryError}

(***************************************************************************)
(* The state.                                                              *)
(***************************************************************************)
VARIABLES
    variant,    \* 1: the first version of the engine, 2: the second
    options,    \* the options given to withRetry
    opts,       \* the merged options the wrapped namespace holds
    stubs,      \* the stubs the underlying namespace has handed out, in
                \* order: stubs[i] is the call (op, arg) that made stub i
    wrapped,    \* the stub proxies createStubProxy has made
    namespaces, \* the wrapped namespaces jurisdiction() has made
    ncalls,     \* the number of logical calls the caller makes
    calls,      \* the logical calls: the locals of the async function and
                \* what it has done so far
    nsLog,      \* the calls of idFromName, idFromString and newUniqueId
                \* the underlying namespace has received
    observed,   \* what the caller got from its latest property read or
                \* utility call
    probe       \* input and result of a function evaluated on its own

vars == <<variant, options, opts, stubs, wrapped, namespaces, ncalls, calls, nsLog, observed, probe>>

NoOutcome == [kind |-> "none", error |-> Unset, value |-> <<0, 0>>]

IdleCall ==
    [pc          |-> "idle",
     w           |-> 0,
     attempt     |-> 0,
     lastError   |-> Unset,
     currentStub |-> 0,
     delay       |-> Fin(0),
     \* what the call has done: its invocations of the remote method (the
     \* stub used, the result), the stubs it got from getStub (with the
     \* number of invocations made and of waits finished by then), its waits
     invocations |-> <<>>,
     fresh       |-> <<>>,
     waitsBegun  |-> 0,
     waitsDone   |-> 0,
     outcome     |-> NoOutcome]

NoValue == [type |-> "none", of |-> 0, prop |-> ""]
NoObservation == [op |-> "none", w |-> 0, arg |-> "", result |-> NoValue]
NoProbe == [fn |-> "none", in |-> <<>>, out |-> <<>>]

InitWith(optionSet) ==
    /\ variant \in {1, 2}
    /\ options \in optionSet
    /\ opts = MergeOptions(variant, options)
    /\ stubs = <<>>
    /\ wrapped = <<>>
    /\ namespaces = <<>>
    /\ ncalls \in 1..MaxCalls
    /\ ncalls > 1 => options \in ConcurrentOptions
    /\ calls = [c \in Calls |-> IdleCall]
    /\ nsLog = <<>>
    /\ observed = NoObservation

\* the first version of the engine, which the tests run
Init == InitWith(ValidOptions) /\ variant = 1 /\ probe = NoProbe

\* either version of the engine
InitVersions == InitWith(ValidOptions) /\ probe = NoProbe

(***************************************************************************)
(* The underlying namespace and the stub proxies.                          *)
(***************************************************************************)
StubOps == {"get", "getByName"}
Keys == {"foo"}

\* The namespace a wrapped namespace holds as its target: <<>> is the one
\* given to withRetry, Append(t, j) is t.jurisdiction(j).  Wrapped namespace
\* 0 is the one withRetry returned to the caller, wrapped namespace n > 0
\* the n-th one made by a call of jurisdiction.
targetOf(n) == IF n = 0 THEN <<>> ELSE namespaces[n].target

\* the opts of the call of withRetry that made wrapped namespace n
optsOf(n) == IF n = 0 THEN opts ELSE namespaces[n].opts

\* the options the call of withRetry that made wrapped namespace n was given
optionsGivenTo(n) == IF n = 0 THEN options ELSE namespaces[n].options

\* a closure that calls target.get whatever the method it was made for
getStubAlwaysGet(w) == [ns |-> wrapped[w].ns, op |-> "get", arg |-> wrapped[w].arg]

\* const getStub = () => target.get(id)   /   target.getByName(name, options):
\* the call the closure of wrapped stub w makes on the underlying namespace
getStub(w) == [ns |-> wrapped[w].ns, op |-> wrapped[w].op, arg |-> wrapped[w].arg]

\* wrapped.get(id) / wrapped.getByName(name, options) on wrapped namespace
\* n: the get trap makes the closure getStub and calls
\* createStubProxy(getStub, opts), which calls getStub() once and wraps the
\* stub it returns
createStubProxy(n, op, arg) ==
    /\ n \in 0..Len(namespaces)
    /\ stubs' = Append(stubs, [ns |-> targetOf(n), op |-> op, arg |-> arg])
    /\ wrapped' = Append(wrapped, [target |-> Len(stubs) + 1, ns |-> targetOf(n),
                                   op |-> op, arg |-> arg, options |-> optsOf(n)])
    /\ UNCHANGED <<variant, options, opts, namespaces, ncalls, calls, nsLog, observed, probe>>

\* withRetry(namespace, o): the wrapped namespace it returns
withRetry(namespace, o) ==
    [target |-> namespace, options |-> o, opts |-> MergeOptions(variant, o)]

\* a jurisdiction trap that wraps the scoped namespace without the options
namespaceJurisdictionBare(n, j) == withRetry(Append(targetOf(n), j), NoOptions)

\* what the function the get trap of wrapped namespace n returns for
\* jurisdiction does when called with j:
\* withRetry(target.jurisdiction(j), options)
namespaceJurisdiction(n, j) == withRetry(Append(targetOf(n), j), optionsGivenTo(n))

\* wrapped.jurisdiction(j) on wrapped namespace n
jurisdiction(n, j) ==
    /\ n \in 0..Len(namespaces)
    /\ namespaces' = Append(namespaces, namespaceJurisdiction(n, j))
    /\ UNCHANGED <<variant, options, opts, stubs, wrapped, ncalls, calls, nsLog, observed, probe>>

(***************************************************************************)
(* The retry engine: the async function a method read returns.             *)
(***************************************************************************)
\* throw e out of the async function: the caller's promise rejects with e
Throw(call, e) ==
    [call EXCEPT !.pc = "rejected",
                 !.outcome = [kind |-> "error", error |-> e, value |-> <<0, 0>>]]

\* return v: the caller's promise resolves with v
Return(call, v) ==
    [call EXCEPT !.pc = "resolved",
                 !.outcome = [kind |-> "value", error |-> Unset, value |-> v]]

\* stub[prop](...args), awaited
Invoke(call, stub) ==
    [call EXCEPT !.pc = "invoking",
                 !.invocations = Append(@, [stub |-> stub, status |-> "pending",
                                            error |-> Unset, value |-> <<0, 0>>])]

\* the awaited invocation has settled
Settled(call, status, e, v) ==
    [call EXCEPT !.invocations[Len(call.invocations)] =
                    [@ EXCEPT !.status = status, !.error = e, !.value = v]]

\* the options createStubProxy was given, which the async function of a call
\* closes over
optionsOf(call) == wrapped[call.w].options

\* the decision of the catch block, first version: the built-in rule, or
\* else the caller's predicate when there is one
shouldRetry1(call, err) ==
    IF isErrorRetryable(err) THEN TRUE
    ELSE IF optionsOf(call).isRetryable # "none"
            /\ CallPredicate(optionsOf(call).isRetryable, err) THEN TRUE
    ELSE FALSE

\* second version: options.isRetryable(err), which is isErrorRetryable when
\* the caller gave none
shouldRetry2(call, err) == CallPredicate(optionsOf(call).isRetryable, err)

\* a decision that retries whatever the error
shouldRetryAnything(call, err) == TRUE

shouldRetry(call, err) ==
    IF variant = 1 THEN shouldRetry1(call, err) ELSE shouldRetry2(call, err)

\* a budget that all the calls share
exhaustedByAnyCall(call) ==
    \E d \in Calls : calls[d].attempt >= optionsOf(call).maxAttempts

\* a budget check that never gives up
exhaustedNever(call) == FALSE

\* a budget check that gives up one attempt early
exhaustedOneEarly(call) == call.attempt + 1 >= optionsOf(call).maxAttempts

\* `attempt >= options.maxAttempts`: the budget is used up
exhausted(call) == call.attempt >= optionsOf(call).maxAttempts

\* a loop that runs every attempt on the stub the proxy wraps
loop1OnTarget(call, st) ==
    IF call.attempt <= optionsOf(call).maxAttempts
    THEN [call |-> Invoke(call, wrapped[call.w].target), stubs |-> st]
    ELSE [call |-> Throw(call, call.lastError), stubs |-> st]

\* From the head of the while loop to the next await (or to the end), first
\* version: the invocation runs on currentStub.
loop1(call, st) ==
    IF call.attempt <= optionsOf(call).maxAttempts
    THEN [call |-> Invoke(call, call.currentStub), stubs |-> st]
    ELSE [call |-> Throw(call, call.lastError), stubs |-> st]

\* Second version: attempt 1 runs on target, a later attempt on getStub().
loop2(call, st) ==
    IF call.attempt <= optionsOf(call).maxAttempts
    THEN IF call.attempt = 1
         THEN [call |-> Invoke([call EXCEPT !.currentStub = wrapped[call.w].target],
                               wrapped[call.w].target),
               stubs |-> st]
         ELSE [call |-> Invoke([call EXCEPT
                                   !.currentStub = Len(st) + 1,
                                   !.fresh = Append(@, [stub |-> Len(st) + 1,
                                                        failed |-> Len(call.invocations),
                                                        waitsDone |-> call.waitsDone])],
                               Len(st) + 1),
               stubs |-> Append(st, getStub(call.w))]
    ELSE [call |-> Throw(call, call.lastError), stubs |-> st]

loop(call, st) == IF variant = 1 THEN loop1(call, st) ELSE loop2(call, st)

\* await scheduler.wait(delay)
Wait(call, delay) ==
    [call EXCEPT !.pc = "waiting", !.delay = delay, !.waitsBegun = @ + 1]

\* a catch block that keeps the first error it saw in lastError
catch1KeepsFirstError(call, err, st, delay) ==
    LET c1 == IF call.lastError = Unset THEN [call EXCEPT !.lastError = err] ELSE call
    IN  IF ~shouldRetry(c1, err) THEN [call |-> Throw(c1, err), stubs |-> st]
        ELSE IF exhausted(c1) THEN [call |-> Throw(c1, c1.lastError), stubs |-> st]
        ELSE [call |-> Wait([c1 EXCEPT
                                !.currentStub = Len(st) + 1,
                                !.fresh = Append(@, [stub |-> Len(st) + 1,
                                                     failed |-> Len(c1.invocations),
                                                     waitsDone |-> c1.waitsDone])],
                            delay),
              stubs |-> Append(st, getStub(c1.w))]

\* a catch block that retries on the stub that has just failed
catch1SameStub(call, err, st, delay) ==
    LET c1 == [call EXCEPT !.lastError = err]
    IN  IF ~shouldRetry(c1, err) THEN [call |-> Throw(c1, err), stubs |-> st]
        ELSE IF exhausted(c1) THEN [call |-> Throw(c1, c1.lastError), stubs |-> st]
        ELSE [call |-> Wait(c1, delay), stubs |-> st]

\* a catch block that takes the fresh stub before it checks the budget
catch1StubBeforeBudget(call, err, st, delay) ==
    LET c1 == [call EXCEPT !.lastError = err]
        c2 == [c1 EXCEPT !.currentStub = Len(st) + 1,
                         !.fresh = Append(@, [stub |-> Len(st) + 1,
                                              failed |-> Len(c1.invocations),
                                              waitsDone |-> c1.waitsDone])]
    IN  IF ~shouldRetry(c1, err) THEN [call |-> Throw(c1, err), stubs |-> st]
        ELSE IF exhausted(c1)
             THEN [call |-> Throw(c2, c2.lastError), stubs |-> Append(st, getStub(c1.w))]
        ELSE [call |-> Wait(c2, delay), stubs |-> Append(st, getStub(c1.w))]

\* The catch block, first version, up to scheduler.wait: the fresh stub is
\* taken before the wait.
catch1(call, err, st, delay) ==
    LET c1 == [call EXCEPT !.lastError = err]
    IN  IF ~shouldRetry(c1, err) THEN [call |-> Throw(c1, err), stubs |-> st]
        ELSE IF exhausted(c1) THEN [call |-> Throw(c1, c1.lastError), stubs |-> st]
        ELSE [call |-> Wait([c1 EXCEPT
                                !.currentStub = Len(st) + 1,
                                !.fresh = Append(@, [stub |-> Len(st) + 1,
                                                     failed |-> Len(c1.invocations),
                                                     waitsDone |-> c1.waitsDone])],
                            delay),
              stubs |-> Append(st, getStub(c1.w))]

\* The catch block, second version.
catch2(call, err, st, delay) ==
    LET c1 == [call EXCEPT !.lastError = err]
    IN  IF ~shouldRetry(c1, err) THEN [call |-> Throw(c1, err), stubs |-> st]
        ELSE IF exhausted(c1) THEN [call |-> Throw(c1, err), stubs |-> st]
        ELSE [call |-> Wait(c1, delay), stubs |-> st]

catch(call, err, st, delay) ==
    IF variant = 1 THEN catch1(call, err, st, delay) ELSE catch2(call, err, st, delay)

\* jitterBackoff(attempt, options.baseDelayMs, options.maxDelayMs) in the
\* catch block: the values the delay can take
backoff(call) ==
    jitterBackoff(call.attempt, optionsOf(call).baseDelayMs,
                  optionsOf(call).maxDelayMs)

\* stub.method(...args) on wrapped stub w: the get trap returns the async
\* function and the caller calls it
StartCall(c, w) ==
    /\ calls[c].pc = "idle"
    /\ c <= ncalls
    /\ w \in 1..Len(wrapped)
    /\ LET r == loop([calls[c] EXCEPT !.w = w, !.attempt = 1,
                                      !.currentStub = wrapped[w].target], stubs)
       IN  /\ calls' = [calls EXCEPT ![c] = r.call]
           /\ stubs' = r.stubs
    /\ UNCHANGED <<variant, options, opts, wrapped, namespaces, ncalls, nsLog, observed, probe>>

\* a remote method that cannot resolve while some call is in its wait
ResolveHeldUpByWait(c) ==
    /\ calls[c].pc = "invoking"
    /\ \A d \in Calls : calls[d].pc # "waiting"
    /\ LET v == <<c, Len(calls[c].invocations)>>
       IN  calls' = [calls EXCEPT ![c] = Return(Settled(calls[c], "ok", Unset, v), v)]
    /\ UNCHANGED <<variant, options, opts, stubs, wrapped, namespaces, ncalls, nsLog, observed, probe>>

\* the remote method resolves: `return await ...`
Resolve(c) ==
    /\ calls[c].pc = "invoking"
    /\ LET v == <<c, Len(calls[c].invocations)>>
       IN  calls' = [calls EXCEPT ![c] = Return(Settled(calls[c], "ok", Unset, v), v)]
    /\ UNCHANGED <<variant, options, opts, stubs, wrapped, namespaces, ncalls, nsLog, observed, probe>>

\* the remote method rejects with e: the catch block runs
Reject(c, e) ==
    /\ calls[c].pc = "invoking"
    /\ LET err == [e EXCEPT !.by = <<c, Len(calls[c].invocations)>>]
       IN  \E delay \in backoff(calls[c]) :
              LET r == catch(Settled(calls[c], "error", err, <<0, 0>>), err, stubs, delay)
              IN  /\ calls' = [calls EXCEPT ![c] = r.call]
                  /\ stubs' = r.stubs
    /\ UNCHANGED <<variant, options, opts, wrapped, namespaces, ncalls, nsLog, observed, probe>>

\* scheduler.wait is over: attempt++ and the loop goes round
WaitDone(c) ==
    /\ calls[c].pc = "waiting"
    /\ LET r == loop([calls[c] EXCEPT !.attempt = @ + 1, !.delay = Fin(0),
                                      !.waitsDone = @ + 1], stubs)
       IN  /\ calls' = [calls EXCEPT ![c] = r.call]
           /\ stubs' = r.stubs
    /\ UNCHANGED <<variant, options, opts, wrapped, namespaces, ncalls, nsLog, observed, probe>>

(***************************************************************************)
(* What passes through the proxies untouched.                              *)
(***************************************************************************)
\* the members of a stub: the mock stub of the tests has id, name and
\* testMethod; a symbol-keyed method stands for the internal properties
Props == {"id", "name", "testMethod", "@@dispose"}
SymbolProps == {"@@dispose"}

\* typeof stub[prop]
TypeOf(prop) ==
    CASE prop = "id" -> "object"
      [] prop = "name" -> "string"
      [] OTHER -> "function"

\* Reflect.get(target, prop, target): the member prop of underlying stub `stub`
Member(stub, prop) == [type |-> TypeOf(prop), of |-> stub, prop |-> prop]

\* a get trap that wraps every member that is no symbol, function or not
stubGetWrapsAll(target, prop) ==
    IF prop \in SymbolProps THEN Member(target, prop)
    ELSE [type |-> "retryFunction", of |-> target, prop |-> prop]

\* what the get trap of a stub proxy returns for prop: the value itself when
\* it is no function or prop is a symbol, else the retrying async function
stubGet(target, prop) ==
    LET value == Member(target, prop)
    IN  IF value.type # "function" THEN value
        ELSE IF prop \in SymbolProps THEN value
        ELSE [type |-> "retryFunction", of |-> target, prop |-> prop]

\* the caller reads stub[prop] on wrapped stub w, without calling it
ReadMember(w, prop) ==
    /\ w \in 1..Len(wrapped)
    /\ observed' = [op |-> "read", w |-> w, arg |-> prop,
                    result |-> stubGet(wrapped[w].target, prop)]
    /\ UNCHANGED <<variant, options, opts, stubs, wrapped, namespaces, ncalls, calls, nsLog, probe>>

\* the utility methods of a namespace, with the argument the tests pass
UtilityOps == {"idFromName", "idFromString", "newUniqueId"}
UtilityArg(op) ==
    CASE op = "idFromName" -> "test-name"
      [] op = "idFromString" -> "test-id"
      [] OTHER -> ""

\* the number of utility calls a behaviour makes
MaxUtilityCalls == 1

\* what the underlying namespace does with its n-th utility call: it returns
\* an id or it throws
UtilityOutcomes(op, n) ==
    {[type |-> "id", of |-> n, prop |-> op], [type |-> "thrown", of |-> n, prop |-> op]}

\* a utility method that is called again when it throws
namespaceUtilityRetried(op, arg, outcome, log) ==
    LET once == Append(log, [op |-> op, arg |-> arg, outcome |-> outcome])
    IN  [log |-> IF outcome.type = "thrown"
                 THEN Append(once, [op |-> op, arg |-> arg, outcome |-> outcome])
                 ELSE once,
         result |-> outcome]

\* what the function the get trap of the wrapped namespace returns for a
\* utility method does when called with arg: value.bind(target) calls the
\* underlying method, whose outcome is `outcome`.  The result is the
\* underlying namespace's log after the call and what the caller gets.
namespaceUtility(op, arg, outcome, log) ==
    [log |-> Append(log, [op |-> op, arg |-> arg, outcome |-> outcome]),
     result |-> outcome]

\* wrapped.idFromName(name), wrapped.idFromString(id), wrapped.newUniqueId()
Utility(op, arg) ==
    /\ Len(nsLog) < MaxUtilityCalls
    /\ \E outcome \in UtilityOutcomes(op, Len(nsLog) + 1) :
          LET r == namespaceUtility(op, arg, outcome, nsLog)
          IN  /\ nsLog' = r.log
              /\ observed' = [op |-> op, w |-> 0, arg |-> arg, result |-> r.result]
    /\ UNCHANGED <<variant, options, opts, stubs, wrapped, namespaces, ncalls, calls, probe>>

Next ==
    \/ \E op \in StubOps, arg \in Keys :
          Len(wrapped) < MaxWrapped /\ createStubProxy(0, op, arg)
    \/ \E c \in Calls, w \in 1..MaxWrapped : StartCall(c, w)
    \/ \E c \in Calls : Resolve(c)
    \/ \E c \in Calls, e \in Rejections : Reject(c, e)
    \/ \E c \in Calls : WaitDone(c)

Spec == Init /\ [][Next]_vars

SpecVersions == InitVersions /\ [][Next]_vars

\* the awaited invocation of call c settles, one way or the other
Settle(c) == Resolve(c) \/ \E e \in Rejections : Reject(c, e)

\* every remote invocation is answered and every scheduler.wait ends
Fairness == \A c \in Calls : WF_vars(Settle(c)) /\ WF_vars(WaitDone(c))

InitLive == Init /\ ncalls = 1

SpecLive == InitLive /\ [][Next]_vars /\ Fairness

(***************************************************************************)
(* Two calls in flight, of which the first may be left hanging for ever:   *)
(* its invocation may stay unanswered and its wait may not end, while the  *)
(* invocations and the waits of the other complete.                        *)
(***************************************************************************)
InitPair == InitWith(ConcurrentOptions) /\ variant = 1 /\ ncalls = 2 /\ probe = NoProbe

FairnessButFirst ==
    \A c \in Calls \ {1} : WF_vars(Settle(c)) /\ WF_vars(WaitDone(c))

SpecPair == InitPair /\ [][Next]_vars /\ FairnessButFirst

(***************************************************************************)
(* The proxies with everything a caller can do to them: the engine's       *)
(* actions, property reads and utility calls, for one choice of options.   *)
(***************************************************************************)
NamespaceOptions == {MkOptions(2, "none")}

InitNamespace == InitWith(NamespaceOptions) /\ ncalls = 1 /\ probe = NoProbe

NextNamespace ==
    \/ Next
    \/ \E w \in 1..MaxWrapped, prop \in Props : ReadMember(w, prop)
    \/ \E op \in UtilityOps : Utility(op, UtilityArg(op))

SpecNamespace == InitNamespace /\ [][NextNamespace]_vars

(***************************************************************************)
(* Jurisdictions: the caller takes a jurisdiction-scoped wrapped namespace *)
(* off a wrapped namespace and gets its stub from either.                  *)
(***************************************************************************)
Jurisdictions == {"eu"}
\* the number of calls of jurisdiction a behaviour makes
MaxJurisdictions == 1

NextJurisdiction ==
    \/ \E n \in 0..MaxJurisdictions, j \in Jurisdictions :
          Len(namespaces) < MaxJurisdictions /\ jurisdiction(n, j)
    \/ \E n \in 0..MaxJurisdictions, op \in StubOps, arg \in Keys :
          Len(wrapped) < MaxWrapped /\ createStubProxy(n, op, arg)
    \/ \E c \in Calls, w \in 1..MaxWrapped : StartCall(c, w)
    \/ \E c \in Calls : Resolve(c)
    \/ \E c \in Calls, e \in Rejections : Reject(c, e)
    \/ \E c \in Calls : WaitDone(c)

InitJurisdiction == Init /\ ncalls = 1

SpecJurisdiction == InitJurisdiction /\ [][NextJurisdiction]_vars

(***************************************************************************)
(* Several stubs of one wrapped namespace, got with either method and with *)
(* different arguments, and the calls made on them together.               *)
(***************************************************************************)
\* the number of wrapped stubs the caller gets
MaxHandles == 2

\* the caller's w-th call for a stub: get(id), then getByName(name, options),
\* then getByName(name)
HandleCall(w) ==
    CASE w = 1 -> [op |-> "get", arg |-> <<"id-1">>]
      [] w = 2 -> [op |-> "getByName", arg |-> <<"foo", "locationHint">>]
      [] OTHER -> [op |-> "getByName", arg |-> <<"foo">>]

InitHandles == InitWith(ConcurrentOptions) /\ variant = 1 /\ probe = NoProbe

NextHandles ==
    \/ /\ Len(wrapped) < MaxHandles
       /\ createStubProxy(0, HandleCall(Len(wrapped) + 1).op,
                          HandleCall(Len(wrapped) + 1).arg)
    \/ \E c \in Calls, w \in 1..MaxHandles : StartCall(c, w)
    \/ \E c \in Calls : Resolve(c)
    \/ \E c \in Calls, e \in Rejections : Reject(c, e)
    \/ \E c \in Calls : WaitDone(c)

SpecHandles == InitHandles /\ [][NextHandles]_vars

(***************************************************************************)
(* Options objects that carry any part of maxAttempts, baseDelayMs and     *)
(* maxDelayMs.                                                             *)
(***************************************************************************)
OptionNames == {"maxAttempts", "baseDelayMs", "maxDelayMs"}

\* the value an options object gives to the option it carries:
\* { maxAttempts: 2, ...FAST_RETRY } of the tests
GivenValue(k) ==
    CASE k = "maxAttempts" -> 2
      [] k = "baseDelayMs" -> FAST_baseDelayMs
      [] OTHER -> FAST_maxDelayMs

PartialOptions == {[k \in S |-> GivenValue(k)] : S \in SUBSET OptionNames}

InitOptions ==
    /\ InitWith(PartialOptions)
    /\ variant = 1
    /\ ncalls = 1
    /\ probe = NoProbe

SpecOptions == InitOptions /\ [][Next]_vars

(***************************************************************************)
(* Options objects of any content: RetryOptions types maxAttempts as a     *)
(* number and withRetry takes it as it comes, so { maxAttempts: 0 } and    *)
(* { maxAttempts: -1 } are passed as well.                                 *)
(***************************************************************************)
UncheckedAttempts == {0, -1}

UncheckedOptions ==
    {[k \in OptionNames |->
         CASE k = "maxAttempts" -> n
           [] k = "baseDelayMs" -> FAST_baseDelayMs
           [] OTHER -> FAST_maxDelayMs] : n \in UncheckedAttempts}

InitAnyOptions ==
    /\ InitWith(ValidOptions \cup UncheckedOptions)
    /\ variant = 1
    /\ ncalls = 1
    /\ probe = NoProbe

SpecAnyOptions == InitAnyOptions /\ [][Next]_vars

(***************************************************************************)
(* The two versions of the engine on the same answers: one call is run to  *)
(* its end on the first version, the remote method answering as it likes;  *)
(* then the same call is run on the second version, the remote method      *)
(* answering its first, second, ... invocation as it did in the first run. *)
(* Nothing of the first run is left but its answers and its summary.       *)
(* withRetry is given no predicate; maxAttempts is any number.             *)
(***************************************************************************)
Ok == [status |-> "ok", error |-> Unset]
Failure(e) == [status |-> "error", error |-> e]

NoPredicateOptions ==
    {o \in ValidOptions \cup UncheckedOptions : "isRetryable" \notin DOMAIN o}

\* what the remote method did at each invocation of a call
AnswersTo(call) ==
    [i \in 1..Len(call.invocations) |->
        IF call.invocations[i].status = "ok" THEN Ok
        ELSE Failure([call.invocations[i].error EXCEPT !.by = <<0, 0>>])]

\* what a caller and the underlying namespace can tell of a call that has
\* ended: the invocations, the stubs taken from getStub (by the call, and
\* all those taken but the one each proxy took when it was made), the waits,
\* and the value or the error the promise settled with
Summary(call) ==
    [invocations  |-> Len(call.invocations),
     acquisitions |-> Len(call.fresh),
     stubs        |-> Len(stubs) - Len(wrapped),
     waitsBegun   |-> call.waitsBegun,
     waitsDone    |-> call.waitsDone,
     outcome      |-> call.outcome]

InitReplay ==
    /\ InitWith(NoPredicateOptions)
    /\ variant = 1
    /\ ncalls = 1
    /\ probe = [fn |-> "replay", in |-> <<>>, out |-> <<>>]

\* the answers the remote method can give to the invocation call c is
\* waiting for: in the second run the answer of the first run, as long as
\* the first run made that many invocations
Answers(c) ==
    LET k == Len(calls[c].invocations)
    IN  IF variant = 2 /\ k <= Len(probe.in) THEN {probe.in[k]}
        ELSE {Ok} \cup {Failure(e) : e \in Rejections}

\* the first run is over: the same namespace is wrapped by the second
\* version's withRetry and the call is made again
Replay ==
    /\ variant = 1
    /\ calls[1].pc \in {"resolved", "rejected"}
    /\ probe' = [probe EXCEPT !.in = AnswersTo(calls[1]), !.out = Summary(calls[1])]
    /\ variant' = 2
    /\ opts' = MergeOptions(2, options)
    /\ stubs' = <<>>
    /\ wrapped' = <<>>
    /\ calls' = [c \in Calls |-> IdleCall]
    /\ UNCHANGED <<options, namespaces, ncalls, nsLog, observed>>

NextReplay ==
    \/ \E op \in StubOps, arg \in Keys :
          Len(wrapped) < MaxWrapped /\ createStubProxy(0, op, arg)
    \/ \E c \in Calls, w \in 1..MaxWrapped : StartCall(c, w)
    \/ \E c \in Calls :
          calls[c].pc = "invoking" /\ Ok \in Answers(c) /\ Resolve(c)
    \/ \E c \in Calls, e \in Rejections :
          /\ calls[c].pc = "invoking"
          /\ Failure(e) \in Answers(c)
          /\ Reject(c, e)
    \/ \E c \in Calls : WaitDone(c)
    \/ Replay

SpecReplay == InitReplay /\ [][NextReplay]_vars

(***************************************************************************)
(* A getStub that can throw: target.get(id) or target.getByName(name)      *)
(* raises instead of returning a stub when the catch block of the first    *)
(* version calls it.                                                       *)
(***************************************************************************)
\* what getStub() throws: by = <<0, 0>> tells the value from whatever an
\* invocation raised
AcquisitionErrors == {RetryableError, NonRetryableError}

\* a catch block with the call of getStub inside a try of its own, whose
\* catch treats what getStub threw like an error of the invocation: it is
\* classified, counted against the budget and followed by a wait
catch1GetStubCaught(call, err, st, thrown, delay) ==
    LET c1 == [call EXCEPT !.lastError = err]
        c2 == [c1 EXCEPT !.lastError = thrown,
                         !.fresh = Append(@, [stub |-> 0,
                                              failed |-> Len(c1.invocations),
                                              waitsDone |-> c1.waitsDone,
                                              error |-> thrown])]
    IN  IF ~shouldRetry(c1, err) THEN [call |-> Throw(c1, err), stubs |-> st]
        ELSE IF exhausted(c1) THEN [call |-> Throw(c1, c1.lastError), stubs |-> st]
        ELSE IF ~shouldRetry(c2, thrown) THEN [call |-> Throw(c2, thrown), stubs |-> st]
        ELSE [call |-> Wait(c2, delay), stubs |-> st]

\* The catch block, first version, when `currentStub = getStub()` throws:
\* the statement is in no try block, so the value leaves the async function
\* and what follows in the catch block is not run.  The call of getStub that
\* threw is kept in fresh with no stub and the value thrown.
catch1GetStubThrows(call, err, st, thrown, delay) ==
    LET c1 == [call EXCEPT !.lastError = err]
    IN  IF ~shouldRetry(c1, err) THEN [call |-> Throw(c1, err), stubs |-> st]
        ELSE IF exhausted(c1) THEN [call |-> Throw(c1, c1.lastError), stubs |-> st]
        ELSE [call |-> Throw([c1 EXCEPT
                                 !.fresh = Append(@, [stub |-> 0,
                                                      failed |-> Len(c1.invocations),
                                                      waitsDone |-> c1.waitsDone,
                                                      error |-> thrown])],
                             thrown),
              stubs |-> st]

\* the remote method rejects with e and getStub, if the catch block gets to
\* it, throws `thrown`
RejectGetStubThrows(c, e, thrown) ==
    /\ calls[c].pc = "invoking"
    /\ LET err == [e EXCEPT !.by = <<c, Len(calls[c].invocations)>>]
       IN  \E delay \in backoff(calls[c]) :
              LET r == catch1GetStubThrows(Settled(calls[c], "error", err, <<0, 0>>),
                                           err, stubs, thrown, delay)
              IN  /\ calls' = [calls EXCEPT ![c] = r.call]
                  /\ stubs' = r.stubs
    /\ UNCHANGED <<variant, options, opts, wrapped, namespaces, ncalls, nsLog, observed, probe>>

InitAcquisition == Init /\ ncalls = 1

NextAcquisition ==
    \/ Next
    \/ \E c \in Calls, e \in Rejections, thrown \in AcquisitionErrors :
          RejectGetStubThrows(c, e, thrown)

SpecAcquisition == InitAcquisition /\ [][NextAcquisition]_vars

(***************************************************************************)
(* One call with a budget beyond the exponent range of a number and a base *)
(* delay of 0: { maxAttempts: 1025, baseDelayMs: 0, maxDelayMs: 10 }.      *)
(***************************************************************************)
ManyAttemptsOptions ==
    {[k \in OptionNames |->
         CASE k = "maxAttempts" -> DoubleMaxExp + 2
           [] k = "baseDelayMs" -> 0
           [] OTHER -> FAST_maxDelayMs]}

InitManyAttempts ==
    /\ InitWith(ManyAttemptsOptions)
    /\ variant = 1
    /\ ncalls = 1
    /\ probe = NoProbe

\* the numbers of failed attempts after which a call is taken up
LateFailures == {DoubleMaxExp - 1, DoubleMaxExp}

\* The state the first version is in when the first n invocations of a call
\* on a wrapped stub have failed with createRetryableError and invocation
\* n + 1 is awaited: a behaviour from InitManyAttempts is in this state
\* after 2n + 2 steps.  baseDelayMs is 0, so every wait so far lasted 0 ms.
CallAfterFailures(n) ==
    [pc          |-> "invoking",
     w           |-> 1,
     attempt     |-> n + 1,
     lastError   |-> [RetryableError EXCEPT !.by = <<1, n>>],
     currentStub |-> n + 1,
     delay       |-> Fin(0),
     invocations |->
        [i \in 1..(n + 1) |->
            IF i <= n
            THEN [stub |-> i, status |-> "error",
                  error |-> [RetryableError EXCEPT !.by = <<1, i>>],
                  value |-> <<0, 0>>]
            ELSE [stub |-> i, status |-> "pending", error |-> Unset,
                  value |-> <<0, 0>>]],
     fresh       |-> [k \in 1..n |-> [stub |-> k + 1, failed |-> k, waitsDone |-> k - 1]],
     waitsBegun  |-> n,
     waitsDone   |-> n,
     outcome     |-> NoOutcome]

InitLateAttempt ==
    /\ variant = 1
    /\ options \in ManyAttemptsOptions
    /\ opts = MergeOptions(variant, options)
    /\ namespaces = <<>>
    /\ ncalls = 1
    /\ nsLog = <<>>
    /\ observed = NoObservation
    /\ probe = NoProbe
    /\ \E n \in LateFailures, op \in StubOps, arg \in Keys :
          /\ stubs = [i \in 1..(n + 1) |-> [ns |-> <<>>, op |-> op, arg |-> arg]]
          /\ wrapped = <<[target |-> 1, ns |-> <<>>, op |-> op, arg |-> arg,
                          options |-> opts]>>
          /\ calls = [c \in Calls |-> IF c = 1 THEN CallAfterFailures(n) ELSE IdleCall]

\* behaviours from the start, and behaviours taken up late in a call
SpecManyAttempts == (InitManyAttempts \/ InitLateAttempt) /\ [][Next]_vars

(***************************************************************************)
(* jitterBackoff on its own: the inputs are drawn at the start and the     *)
(* function is applied to them.                                            *)
(***************************************************************************)
MaxProbeAttempt == 4
MaxProbeBase == 3
MaxProbeDelay == 5

ProbeAttempts == 1..MaxProbeAttempt \cup {ExactExp + 1, DoubleMaxExp, DoubleMaxExp + 1}

InitBackoff ==
    /\ InitWith({NoOptions})
    /\ variant = 1
    /\ ncalls = 1
    /\ \E a \in ProbeAttempts, b \in 0..MaxProbeBase, m \in 0..MaxProbeDelay :
          probe = [fn |-> "jitterBackoff", in |-> <<a, b, m>>, out |-> <<>>]

EvalBackoff ==
    /\ probe.fn = "jitterBackoff"
    /\ probe.out = <<>>
    /\ \E r \in jitterBackoff(probe.in[1], probe.in[2], probe.in[3]) :
          probe' = [probe EXCEPT !.out = <<r>>]
    /\ UNCHANGED <<variant, options, opts, stubs, wrapped, namespaces, ncalls, calls, nsLog, observed>>

NextBackoff == EvalBackoff

SpecBackoff == InitBackoff /\ [][NextBackoff]_vars

(***************************************************************************)
(* isErrorRetryable on its own: it is applied to null, to undefined and to *)
(* errors with every setting of the two markers and with messages that     *)
(* hold the overload literal, parts of it, or none of it.                  *)
(***************************************************************************)
ProbeMessages ==
    {<<>>,
     <<"transient">>,
     <<"Durable", "Object", "is", "overloaded">>,
     <<"Durable", "Object", "is", "overloaded", ".", "Requests", "queued">>,
     <<"Durable", "Object", "overloaded">>,
     <<"Object", "is", "overloaded", "Durable">>}

\* the markers an error carries: each of retryable and overloaded is not
\* set, true or false
ProbeProps == UNION {[S -> BOOLEAN] : S \in SUBSET {"retryable", "overloaded"}}

ProbeErrors ==
    {ThrownNull, ThrownUndefined}
        \cup {MkError(m, p) : m \in ProbeMessages, p \in ProbeProps}

InitClassifier ==
    /\ InitWith({NoOptions})
    /\ variant = 1
    /\ ncalls = 1
    /\ \E e \in ProbeErrors :
          probe = [fn |-> "isErrorRetryable", in |-> <<e>>, out |-> <<>>]

EvalClassifier ==
    /\ probe.fn = "isErrorRetryable"
    /\ probe.out = <<>>
    /\ probe' = [probe EXCEPT !.out = <<isErrorRetryable(probe.in[1])>>]
    /\ UNCHANGED <<variant, options, opts, stubs, wrapped, namespaces, ncalls, calls, nsLog, observed>>

NextClassifier == EvalClassifier

SpecClassifier == InitClassifier /\ [][NextClassifier]_vars

(***************************************************************************)
(* The claims.                                                             *)
(*                                                                         *)
(* The words of the specification, stated on their own: an error is        *)
(* overloaded when its overloaded marker is truthy or its rendered message *)
(* holds the overload literal; it is infrastructure-retryable when its     *)
(* retryable marker is truthy and it is not overloaded; the caller's       *)
(* predicate accepts it when there is one and it returns true.             *)
(***************************************************************************)
Overloaded(e) ==
    Truthy(e, "overloaded") \/ Includes(String(e), OverloadedLiteral)

InfraRetryable(e) == Truthy(e, "retryable") /\ ~Overloaded(e)

PredicateAccepts(e) ==
    /\ "isRetryable" \in DOMAIN options
    /\ CASE options.isRetryable = "always" -> TRUE
         [] options.isRetryable = "temporary" -> e = [TemporaryError EXCEPT !.by = e.by]
         [] OTHER -> FALSE

Finished(call) == call.pc \in {"resolved", "rejected"}

\* every invocation call c has made has failed with an
\* infrastructure-retryable error
AllFailedInfra(c) ==
    \A i \in 1..Len(calls[c].invocations) :
        /\ calls[c].invocations[i].status = "error"
        /\ InfraRetryable(calls[c].invocations[i].error)

\* C1: when every invocation of a logical call fails with an
\* infrastructure-retryable error, the call ends only after exactly
\* maxAttempts invocations, and it ends rejected with the error of the last
\* of them; with maxAttempts = 1 no call ever waits and a first failure ends
\* the call.
C1_AlwaysRetryableRunsNTimes ==
    \A c \in Calls :
        LET call == calls[c]
            n == Len(call.invocations)
        IN  /\ (Finished(call) /\ AllFailedInfra(c)) =>
                  /\ n = opts.maxAttempts
                  /\ call.pc = "rejected"
                  /\ call.outcome.kind = "error"
                  /\ call.outcome.error = call.invocations[n].error
            /\ opts.maxAttempts = 1 =>
                  /\ call.pc # "waiting"
                  /\ call.waitsBegun = 0
                  /\ n <= 1
                  /\ (n = 1 /\ call.invocations[1].status = "error") =>
                        /\ call.pc = "rejected"
                        /\ call.outcome.error = call.invocations[1].error

\* a call that used its whole budget of MaxAttempts on retryable failures
C1_Witness ==
    \E c \in Calls :
        /\ calls[c].pc = "rejected"
        /\ AllFailedInfra(c)
        /\ opts.maxAttempts = MaxAttempts
        /\ Len(calls[c].invocations) = MaxAttempts

\* the stubs the namespace has handed out are the initial stubs of the
\* wrapped stubs and the fresh stubs of the calls
RECURSIVE FreshTotal(_)
FreshTotal(n) == IF n = 0 THEN 0 ELSE Len(calls[n].fresh) + FreshTotal(n - 1)

\* C2: a call that resolves has made k <= maxAttempts invocations, of which
\* the first k-1 failed and the k-th succeeded; it resolves with the value of
\* the k-th, it has taken exactly k-1 stubs from getStub, and the namespace
\* has handed out no stub but the initial ones and those; and a call does
\* not end on an infrastructure-retryable failure while attempts are left.
C2_SuccessOnAttemptK ==
    /\ \A c \in Calls :
          LET call == calls[c]
              k == Len(call.invocations)
          IN  /\ call.pc = "resolved" =>
                    /\ k >= 1
                    /\ k <= opts.maxAttempts
                    /\ k = call.attempt
                    /\ \A i \in 1..(k - 1) : call.invocations[i].status = "error"
                    /\ call.invocations[k].status = "ok"
                    /\ call.outcome.kind = "value"
                    /\ call.outcome.value = call.invocations[k].value
                    /\ Len(call.fresh) = k - 1
              /\ (call.pc = "rejected" /\ k >= 1 /\ k < opts.maxAttempts) =>
                    ~InfraRetryable(call.invocations[k].error)
    /\ Len(stubs) = Len(wrapped) + FreshTotal(MaxCalls)

\* a call that resolved on its third attempt
C2_Witness ==
    \E c \in Calls :
        /\ calls[c].pc = "resolved"
        /\ Len(calls[c].invocations) = 3
        /\ Len(calls[c].fresh) = 2
        /\ Len(stubs) = 3

\* C3 (as claimed): an invocation that fails with an overloaded error is the
\* call's last: the call is rejected with that error, and no wait and no
\* getStub follow the failure, whatever the options.
C3_OverloadedNeverRetried ==
    \A c \in Calls :
        LET call == calls[c]
        IN  \A i \in 1..Len(call.invocations) :
                (call.invocations[i].status = "error"
                    /\ Overloaded(call.invocations[i].error)) =>
                   /\ i = Len(call.invocations)
                   /\ call.pc = "rejected"
                   /\ call.outcome.error = call.invocations[i].error
                   /\ call.waitsBegun = i - 1
                   /\ Len(call.fresh) = i - 1

\* the error is retryable under neither rule: not infrastructure-retryable,
\* and not accepted by a predicate of the caller
NotRetryable(e) == ~InfraRetryable(e) /\ ~PredicateAccepts(e)

\* C4: an invocation that fails with an error that is not retryable is the
\* call's last: the call is rejected with that error at once, with no wait
\* and no getStub after the failure, whatever is left of the budget.
C4_NonRetryableFailsAtOnce ==
    \A c \in Calls :
        LET call == calls[c]
        IN  \A k \in 1..Len(call.invocations) :
                (call.invocations[k].status = "error"
                    /\ NotRetryable(call.invocations[k].error)) =>
                   /\ k = Len(call.invocations)
                   /\ call.pc = "rejected"
                   /\ call.outcome.kind = "error"
                   /\ call.outcome.error = call.invocations[k].error
                   /\ call.waitsBegun = k - 1
                   /\ call.waitsDone = k - 1
                   /\ Len(call.fresh) = k - 1

\* a call rejected on its second attempt, with one attempt left, by an error
\* that is not retryable
C4_Witness ==
    \E c \in Calls :
        /\ calls[c].pc = "rejected"
        /\ Len(calls[c].invocations) = 2
        /\ opts.maxAttempts = 3
        /\ NotRetryable(calls[c].invocations[2].error)
        /\ calls[c].invocations[1].status = "error"

\* the call went on after its i-th invocation: it waited or invoked again
WentOn(call, i) == i < Len(call.invocations) \/ call.pc = "waiting"

\* C5 (as claimed): after a failed attempt with attempts left, the engine
\* retries exactly when the error is infrastructure-retryable or the
\* caller's predicate accepts it.
C5_RetryIffBuiltinOrPredicate ==
    \A c \in Calls :
        LET call == calls[c]
        IN  \A i \in 1..Len(call.invocations) :
                (call.invocations[i].status = "error" /\ i < opts.maxAttempts) =>
                   (WentOn(call, i) <=>
                       (InfraRetryable(call.invocations[i].error)
                            \/ PredicateAccepts(call.invocations[i].error)))

\* C6: a call that has ended has resolved with the value of its last
\* invocation, which succeeded, or has rejected with the very error its last
\* invocation raised; a call that has not ended has no outcome.
C6_ResultOrLastError ==
    \A c \in Calls :
        LET call == calls[c]
            n == Len(call.invocations)
        IN  /\ call.pc = "resolved" =>
                  /\ n >= 1
                  /\ call.invocations[n].status = "ok"
                  /\ call.outcome = [kind |-> "value", error |-> Unset,
                                     value |-> call.invocations[n].value]
            /\ call.pc = "rejected" =>
                  /\ n >= 1
                  /\ call.invocations[n].status = "error"
                  /\ call.invocations[n].error.by = <<c, n>>
                  /\ call.outcome = [kind |-> "error",
                                     error |-> call.invocations[n].error,
                                     value |-> <<0, 0>>]
            /\ ~Finished(call) => call.outcome = NoOutcome

\* a call rejected by its third failure, after two other errors
C6_Witness ==
    \E c \in Calls :
        /\ calls[c].pc = "rejected"
        /\ Len(calls[c].invocations) = 3
        /\ calls[c].outcome.error.by = <<c, 3>>
        /\ calls[c].invocations[1].error.message # calls[c].invocations[3].error.message

\* C7: the first attempt of a call runs on the stub the proxy wraps, with no
\* getStub; every later attempt k runs on the stub getStub returned after
\* the failure of attempt k-1, which is not the stub of attempt k-1 nor of
\* any attempt before.
C7_FreshStubPerRetry ==
    \A c \in Calls :
        LET call == calls[c]
            inv == call.invocations
        IN  /\ Len(inv) >= 1 => inv[1].stub = wrapped[call.w].target
            /\ (Len(inv) = 1 /\ inv[1].status = "pending") => call.fresh = <<>>
            /\ \A k \in 2..Len(inv) :
                  /\ inv[k - 1].status = "error"
                  /\ Len(call.fresh) >= k - 1
                  /\ inv[k].stub = call.fresh[k - 1].stub
                  /\ call.fresh[k - 1].failed = k - 1
                  /\ \A j \in 1..(k - 1) : inv[k].stub > inv[j].stub

\* a call on its third attempt
C7_Witness ==
    \E c \in Calls :
        /\ Len(calls[c].invocations) = 3
        /\ calls[c].invocations[3].stub # calls[c].invocations[2].stub
        /\ calls[c].invocations[2].stub # calls[c].invocations[1].stub

\* min(2^a * b, m) for the inputs drawn, where m < 2 ^ ExactExp
CapOf(a, b, m) ==
    IF b = 0 THEN 0
    ELSE IF a > ExactExp THEN m
    ELSE IF 2 ^ a * b < m THEN 2 ^ a * b ELSE m

\* C8 (as claimed): whatever jitterBackoff(a, baseDelayMs, maxDelayMs)
\* returns, for a >= 1 and delays >= 0, is an integer from 0 to
\* min(2^a * baseDelayMs, maxDelayMs).
C8_BackoffWithinCap ==
    (probe.fn = "jitterBackoff" /\ probe.out # <<>>) =>
        /\ probe.out[1].k = "fin"
        /\ probe.out[1].v >= 0
        /\ probe.out[1].v <= CapOf(probe.in[1], probe.in[2], probe.in[3])

\* the members of a stub that are no functions
NonCallable == {"id", "name"}

\* C9: what a read of a non-callable member of a wrapped stub returns is the
\* member of the stub it wraps, and the read leaves the calls, the stubs
\* handed out and the namespace as they were: nothing is invoked, awaited or
\* fetched.
C9_ReadPassesThrough ==
    /\ []((observed.op = "read" /\ observed.arg \in NonCallable) =>
            /\ observed.result.of = wrapped[observed.w].target
            /\ observed.result.prop = observed.arg
            /\ observed.result.type \in {"object", "string"})
    /\ [][(observed' # observed /\ observed'.op = "read"
              /\ observed'.arg \in NonCallable) =>
            /\ calls' = calls
            /\ stubs' = stubs
            /\ wrapped' = wrapped
            /\ nsLog' = nsLog]_vars

\* id is read off a wrapped stub while a call on it waits for its retry
C9_Witness ==
    /\ observed.op = "read"
    /\ observed.arg = "id"
    /\ \E c \in Calls : calls[c].pc = "waiting" /\ calls[c].w = observed.w

\* C10: a call of idFromName, idFromString or newUniqueId on the wrapped
\* namespace makes exactly one call of the same method on the underlying
\* namespace, with the same argument; the caller gets what that call
\* returned or threw; no call, stub or proxy changes; and the underlying
\* methods are called in no other way.
C10_UtilityForwardedOnce ==
    /\ [][(observed' # observed /\ observed'.op \in UtilityOps) =>
            /\ Len(nsLog') = Len(nsLog) + 1
            /\ SubSeq(nsLog', 1, Len(nsLog)) = nsLog
            /\ nsLog'[Len(nsLog')].op = observed'.op
            /\ nsLog'[Len(nsLog')].arg = observed'.arg
            /\ nsLog'[Len(nsLog')].outcome = observed'.result
            /\ calls' = calls
            /\ stubs' = stubs
            /\ wrapped' = wrapped]_vars
    /\ [][nsLog' # nsLog =>
            (observed' # observed /\ observed'.op \in UtilityOps)]_vars

\* idFromString has thrown, and one call of it reached the namespace
C10_Witness ==
    /\ observed.op = "idFromString"
    /\ observed.arg = "test-id"
    /\ observed.result.type = "thrown"
    /\ Len(nsLog) = 1
    /\ nsLog[1].op = "idFromString"

\* the call of the underlying namespace the closure of wrapped stub w was
\* made for: the method and the arguments the caller gave
OriginalCall(w) == [ns |-> wrapped[w].ns, op |-> wrapped[w].op, arg |-> wrapped[w].arg]

\* C11: withRetry itself takes no stub from the underlying namespace, get
\* and getByName take exactly one, and every stub taken for a wrapped stub
\* (the one it wraps and each fresh one of a call made on it) comes from a
\* call of the same method of the same namespace with the arguments the
\* caller gave.
C11_SameAcquisition ==
    /\ wrapped = <<>> => stubs = <<>>
    /\ Len(stubs) = Len(wrapped) + FreshTotal(MaxCalls)
    /\ \A w \in 1..Len(wrapped) :
          /\ wrapped[w].target \in 1..Len(stubs)
          /\ stubs[wrapped[w].target] = OriginalCall(w)
          /\ wrapped[w].ns = <<>>
          /\ \A v \in 1..Len(wrapped) :
                v # w => wrapped[v].target # wrapped[w].target
    /\ \A c \in Calls :
          \A k \in 1..Len(calls[c].fresh) :
              /\ calls[c].fresh[k].stub \in 1..Len(stubs)
              /\ stubs[calls[c].fresh[k].stub] = OriginalCall(calls[c].w)
              /\ \A w \in 1..Len(wrapped) :
                    wrapped[w].target # calls[c].fresh[k].stub

\* two wrapped stubs, one got with get and one with getByName and a
\* location hint, and a call on the second that has taken a fresh stub
C11_Witness ==
    /\ Len(wrapped) = 2
    /\ wrapped[1].op = "get"
    /\ wrapped[2].op = "getByName"
    /\ wrapped[2].arg = <<"foo", "locationHint">>
    /\ \E c \in Calls :
          /\ calls[c].w = 2
          /\ Len(calls[c].fresh) = 1
          /\ stubs[calls[c].fresh[1].stub].op = "getByName"

\* C12: a wrapped namespace made by jurisdiction(j) wraps the
\* jurisdiction-scoped namespace of its parent's target and holds the
\* parent's configuration; a stub got from it is taken, and taken afresh,
\* from the scoped namespace; and a call on such a stub has the parent's
\* budget and classification: at most maxAttempts invocations, and after a
\* failure with attempts left it goes on exactly when the error is
\* infrastructure-retryable or the parent's predicate accepts it.
C12_JurisdictionSameConfig ==
    /\ \A n \in 1..Len(namespaces) :
          /\ Len(namespaces[n].target) >= 1
          /\ namespaces[n].target[Len(namespaces[n].target)] \in Jurisdictions
          /\ namespaces[n].opts = opts
    /\ \A w \in 1..Len(wrapped) :
          /\ wrapped[w].options = opts
          /\ stubs[wrapped[w].target].ns = wrapped[w].ns
    /\ \A c \in Calls :
          LET call == calls[c]
          IN  call.w # 0 =>
                /\ Len(call.invocations) <= opts.maxAttempts
                /\ \A i \in 1..Len(call.invocations) :
                      /\ stubs[call.invocations[i].stub].ns = wrapped[call.w].ns
                      /\ (call.invocations[i].status = "error"
                             /\ i < opts.maxAttempts) =>
                            (WentOn(call, i) <=>
                                (InfraRetryable(call.invocations[i].error)
                                    \/ PredicateAccepts(call.invocations[i].error)))
                      /\ (call.invocations[i].status = "error"
                             /\ i = opts.maxAttempts) => call.pc = "rejected"

\* a call on a stub of the jurisdiction-scoped namespace, under
\* { maxAttempts: 2, isRetryable: () => true }, that retried an error only
\* the predicate accepts, on a fresh stub of the scoped namespace, and was
\* rejected when its budget of 2 was used up
C12_Witness ==
    \E c \in Calls :
        /\ calls[c].pc = "rejected"
        /\ wrapped[calls[c].w].ns = <<"eu">>
        /\ options = MkOptions(2, "always")
        /\ Len(calls[c].invocations) = 2
        /\ ~InfraRetryable(calls[c].invocations[1].error)
        /\ stubs[calls[c].invocations[2].stub].ns = <<"eu">>

\* C13: each of maxAttempts, baseDelayMs and maxDelayMs that the options
\* object leaves out has its default in the merged options (3, 100, 3000)
\* and each one it carries keeps its value, whatever the others; the stub
\* proxies are given the merged options; and when maxAttempts is left out,
\* a call whose invocations all fail retryably ends after exactly 3.
C13_DefaultsPerOption ==
    /\ opts.maxAttempts =
          IF "maxAttempts" \in DOMAIN options THEN options.maxAttempts ELSE 3
    /\ opts.baseDelayMs =
          IF "baseDelayMs" \in DOMAIN options THEN options.baseDelayMs ELSE 100
    /\ opts.maxDelayMs =
          IF "maxDelayMs" \in DOMAIN options THEN options.maxDelayMs ELSE 3000
    /\ \A w \in 1..Len(wrapped) : wrapped[w].options = opts
    /\ "maxAttempts" \notin DOMAIN options =>
          \A c \in Calls :
              /\ Len(calls[c].invocations) <= 3
              /\ (Finished(calls[c]) /\ AllFailedInfra(c)) =>
                    /\ Len(calls[c].invocations) = 3
                    /\ calls[c].pc = "rejected"

\* under { baseDelayMs: 1 } alone, a call has been rejected after three
\* retryable failures
C13_Witness ==
    /\ DOMAIN options = {"baseDelayMs"}
    /\ opts.maxDelayMs = 3000
    /\ \E c \in Calls :
          /\ calls[c].pc = "rejected"
          /\ AllFailedInfra(c)
          /\ Len(calls[c].invocations) = 3

\* the thrown value carries a marker that is set to true
HasTruthyMarker(e, marker) ==
    /\ e \notin {ThrownNull, ThrownUndefined}
    /\ marker \in DOMAIN e.props
    /\ e.props[marker] = TRUE

\* the rendered message has the words Durable Object is overloaded in it,
\* one after the other
RenderedHasLiteral(e) ==
    LET msg == String(e)
    IN  \E i \in 1..Len(msg) :
            /\ i + 3 <= Len(msg)
            /\ msg[i] = "Durable"
            /\ msg[i + 1] = "Object"
            /\ msg[i + 2] = "is"
            /\ msg[i + 3] = "overloaded"

\* C14: isErrorRetryable(err) is true exactly when err has a truthy
\* retryable marker, has no truthy overloaded marker and its rendered
\* message does not contain 'Durable Object is overloaded'; null, undefined
\* and an error without markers are not retryable.
C14_ClassifierIsConjunction ==
    (probe.fn = "isErrorRetryable" /\ probe.out # <<>>) =>
        LET e == probe.in[1]
        IN  /\ probe.out[1] <=>
                  (/\ HasTruthyMarker(e, "retryable")
                   /\ ~HasTruthyMarker(e, "overloaded")
                   /\ ~RenderedHasLiteral(e))
            /\ e \in {ThrownNull, ThrownUndefined} => probe.out[1] = FALSE
            /\ (e.type = "Error" /\ e.props = NoProps) => probe.out[1] = FALSE

\* the classifier has refused an error marked retryable, with overloaded
\* set to false, because of the literal inside its message
C14_Witness ==
    /\ probe.fn = "isErrorRetryable"
    /\ probe.out = <<FALSE>>
    /\ probe.in[1].props = [m \in {"retryable", "overloaded"} |-> m = "retryable"]
    /\ Len(probe.in[1].message) = 7

\* C15 (as claimed): the stub for attempt k+1 is taken from getStub only
\* when the wait that follows attempt k is over: the k-th fresh stub of a
\* call is taken after k waits have ended, and a call that is waiting holds
\* no stub it has not yet invoked.
C15_AcquireAfterWait ==
    \A c \in Calls :
        LET call == calls[c]
        IN  /\ \A k \in 1..Len(call.fresh) : call.fresh[k].waitsDone = k
            /\ call.pc = "waiting" => Len(call.fresh) = call.waitsDone

\* C16 (as claimed): the i-th wait of a call follows the failure of attempt
\* i, and its delay is a whole number from 0 up to, and when the cap is
\* positive below, min(2^i * baseDelayMs, maxDelayMs); that cap is no
\* smaller than the cap of the wait before.
C16_WaitCapByFailedAttempt ==
    \A c \in Calls :
        LET call == calls[c]
            i == call.waitsBegun
            cap == CapOf(i, opts.baseDelayMs, opts.maxDelayMs)
        IN  call.pc = "waiting" =>
              /\ i >= 1
              /\ i = call.attempt
              /\ i = Len(call.invocations)
              /\ call.delay.k = "fin"
              /\ call.delay.v >= 0
              /\ call.delay.v <= cap
              /\ cap > 0 => call.delay.v < cap
              /\ i > 1 => CapOf(i - 1, opts.baseDelayMs, opts.maxDelayMs) <= cap
              /\ i = 1 =>
                    cap = IF 2 * opts.baseDelayMs < opts.maxDelayMs
                          THEN 2 * opts.baseDelayMs ELSE opts.maxDelayMs

\* C17: a call never begins more than maxAttempts - 1 waits nor takes more
\* than maxAttempts - 1 fresh stubs; when its invocation number maxAttempts
\* fails, it is rejected with that error and nothing follows: it has made
\* exactly maxAttempts - 1 waits, all ended, and used maxAttempts stubs, the
\* one the proxy wraps and maxAttempts - 1 fresh ones, and when it is the
\* only call the namespace has handed out no stub but those and the ones
\* the other proxies wrap.
C17_ExhaustionStopsAtOnce ==
    \A c \in Calls :
        LET call == calls[c]
            N == opts.maxAttempts
        IN  call.w # 0 =>
              /\ call.waitsBegun <= N - 1
              /\ Len(call.fresh) <= N - 1
              /\ (Len(call.invocations) = N
                     /\ call.invocations[N].status = "error") =>
                    /\ call.pc = "rejected"
                    /\ call.outcome.error = call.invocations[N].error
                    /\ call.waitsBegun = N - 1
                    /\ call.waitsDone = N - 1
                    /\ Len(call.fresh) = N - 1
                    /\ Cardinality({call.invocations[i].stub : i \in 1..N}) = N
                    /\ {call.invocations[i].stub : i \in 1..N} =
                          {wrapped[call.w].target}
                              \cup {call.fresh[k].stub : k \in 1..(N - 1)}
                    /\ ncalls = 1 => Len(stubs) = Len(wrapped) + N - 1

\* a call with a budget of 3 whose third invocation failed retryably, after
\* two waits and on the third stub handed out
C17_Witness ==
    \E c \in Calls :
        /\ opts.maxAttempts = 3
        /\ Len(calls[c].invocations) = 3
        /\ InfraRetryable(calls[c].invocations[3].error)
        /\ calls[c].pc = "rejected"
        /\ calls[c].waitsDone = 2
        /\ calls[c].invocations[3].stub = 3
        /\ Len(stubs) = 3

\* C18: a call that has begun comes to its end, resolved or rejected, when
\* every invocation is answered and every wait ends; on the way it only
\* goes from an invocation to its end or to a wait, and from a wait to the
\* next invocation; and at every moment it has made at most maxAttempts
\* invocations and its attempt counter is from 1 to maxAttempts.
C18_CallTerminates ==
    /\ \A c \in Calls :
          (calls[c].pc \in {"invoking", "waiting"}) ~> Finished(calls[c])
    /\ [](\A c \in Calls :
            calls[c].pc # "idle" =>
              /\ Len(calls[c].invocations) <= opts.maxAttempts
              /\ calls[c].attempt \in 1..opts.maxAttempts
              /\ Len(calls[c].invocations) = calls[c].attempt)
    /\ [][\A c \in Calls :
            calls'[c].pc # calls[c].pc =>
              \/ calls[c].pc = "idle" /\ calls'[c].pc = "invoking"
              \/ calls[c].pc = "invoking"
                    /\ calls'[c].pc \in {"resolved", "rejected", "waiting"}
              \/ calls[c].pc = "waiting" /\ calls'[c].pc = "invoking"]_vars

\* a call with a budget of 3 has resolved on its last attempt, after two
\* waits
C18_Witness ==
    \E c \in Calls :
        /\ opts.maxAttempts = 3
        /\ calls[c].pc = "resolved"
        /\ calls[c].attempt = 3
        /\ calls[c].waitsDone = 2

\* what an invocation came to, whoever made it and on whatever stub
ResultOf(inv) ==
    [status |-> inv.status, message |-> inv.error.message, props |-> inv.error.props]

\* C19: with several calls in flight on the same wrapped stub or on
\* different ones, a step of one call changes nothing of another; a call
\* begins with attempt = 1; its attempt counter is the number of its own
\* invocations and its lastError the error of its own latest failure; and
\* a call that has met the results on which another call ended has ended
\* with them too, in the same way: what the others do costs it no attempt.
C19_AttemptStatePrivate ==
    /\ [](\A c \in Calls :
            LET call == calls[c]
                n == Len(call.invocations)
            IN  call.pc # "idle" =>
                  /\ call.attempt = n
                  /\ n <= opts.maxAttempts
                  /\ \A i \in 1..n : call.invocations[i].status = "error" =>
                          call.invocations[i].error.by = <<c, i>>
                  /\ call.lastError =
                        IF \E i \in 1..n : call.invocations[i].status = "error"
                        THEN call.invocations[
                                 IF call.invocations[n].status = "error"
                                 THEN n ELSE n - 1].error
                        ELSE Unset
                  /\ \A d \in Calls :
                        (/\ Finished(calls[d])
                         /\ n >= Len(calls[d].invocations)
                         /\ \A i \in 1..Len(calls[d].invocations) :
                               ResultOf(call.invocations[i])
                                   = ResultOf(calls[d].invocations[i])) =>
                           /\ n = Len(calls[d].invocations)
                           /\ call.pc = calls[d].pc)
    /\ [][\A c \in Calls :
            /\ calls'[c] # calls[c] =>
                  \A d \in Calls : d # c => calls'[d] = calls[d]
            /\ (calls[c].pc = "idle" /\ calls'[c].pc # "idle") =>
                  /\ calls'[c].attempt = 1
                  /\ calls'[c].lastError = Unset
            /\ (calls[c].pc # "idle" /\ calls'[c].attempt # calls[c].attempt) =>
                  /\ calls'[c].attempt = calls[c].attempt + 1
                  /\ calls[c].invocations[calls[c].attempt].status = "error"
            /\ calls'[c].lastError # calls[c].lastError =>
                  /\ calls[c].pc = "invoking"
                  /\ calls'[c].invocations[calls[c].attempt].status = "error"]_vars

\* two calls on the same wrapped stub, the first on its second attempt
\* while the second is on its first
C19_Witness ==
    /\ calls[1].w = calls[2].w
    /\ calls[1].pc = "invoking"
    /\ calls[1].attempt = 2
    /\ calls[2].pc = "invoking"
    /\ calls[2].attempt = 1

\* C20 (as claimed): no stub of the underlying namespace is invoked by two
\* different calls, be they on the same wrapped stub or not, together or
\* one after the other.
C20_StubsNotShared ==
    \A c, d \in Calls :
        c # d =>
          \A i \in 1..Len(calls[c].invocations) :
              \A j \in 1..Len(calls[d].invocations) :
                  calls[c].invocations[i].stub # calls[d].invocations[j].stub

\* C21: whatever the other calls are doing, a call that awaits its
\* invocation can have it answered, by a value or by any error, and a call
\* in its wait can have the wait end; and a call whose own invocations and
\* waits complete comes to its end even when another call hangs for ever
\* in its invocation or in its wait.
C21_CallsDoNotBlock ==
    /\ [](\A c \in Calls :
            /\ calls[c].pc = "invoking" =>
                  /\ ENABLED Resolve(c)
                  /\ \A e \in Rejections : ENABLED Reject(c, e)
            /\ calls[c].pc = "waiting" => ENABLED WaitDone(c))
    /\ \A c \in Calls \ {1} :
          (calls[c].pc \in {"invoking", "waiting"}) ~> Finished(calls[c])

\* the second call has resolved on its second attempt while the first
\* call, made on the same wrapped stub, is in the wait after its first
\* failure
C21_Witness ==
    /\ calls[1].pc = "waiting"
    /\ calls[2].pc = "resolved"
    /\ calls[2].attempt = 2
    /\ calls[2].w = calls[1].w
    /\ calls[2].invocations[1].stub = calls[1].invocations[1].stub

\* C22 (as claimed): whatever options withRetry was given, in every state
\* of a call the maxAttempts its stub proxy works with is at least 1; a
\* call that has ended has invoked the method at least once; and a rejected
\* call is rejected with the error one of its invocations raised, never
\* with an unset lastError.
C22_MaxAttemptsAtLeastOne ==
    \A c \in Calls :
        LET call == calls[c]
        IN  /\ call.pc # "idle" => optionsOf(call).maxAttempts >= 1
            /\ Finished(call) => Len(call.invocations) >= 1
            /\ call.pc = "rejected" =>
                  /\ call.outcome.error # Unset
                  /\ \E i \in 1..Len(call.invocations) :
                        /\ call.invocations[i].status = "error"
                        /\ call.outcome.error = call.invocations[i].error

\* C23: with no predicate given to withRetry and a getStub that does not
\* throw, a call run on the first version and the same call run on the second
\* version, the remote method answering the same at each invocation, end
\* alike whatever maxAttempts is: as many invocations, as many stubs taken
\* from getStub, as many waits, and the same value returned or the same
\* error thrown.
C23_VersionsEndAlike ==
    (variant = 2 /\ Finished(calls[1])) => Summary(calls[1]) = probe.out

\* both runs have failed three times with retryable errors and have given
\* up: the first version by `throw lastError`, the second by `throw err`
C23_Witness ==
    /\ variant = 2
    /\ calls[1].pc = "rejected"
    /\ Len(calls[1].invocations) = 3
    /\ Len(calls[1].fresh) = 2
    /\ probe.out = Summary(calls[1])
    /\ optionsOf(calls[1]).isRetryable = "isErrorRetryable"

\* the calls of getStub, made by a call, that threw
FailedAcquisitions(call) == {i \in 1..Len(call.fresh) : call.fresh[i].stub = 0}

\* C24: in the first version, when getStub throws in the catch block (the
\* invocation has failed with an error that is retried and the budget is
\* not used up), the call is rejected at once with what getStub threw,
\* retryable or not: no wait begins and no invocation is made after it,
\* attempt is not incremented and stays below maxAttempts, and lastError
\* still is the error of the invocation.
C24_AcquisitionErrorEndsCall ==
    \A c \in Calls :
        LET call == calls[c]
        IN  \A i \in FailedAcquisitions(call) :
                LET f == call.fresh[i]
                IN  /\ i = Len(call.fresh)
                    /\ call.pc = "rejected"
                    /\ call.outcome.error = f.error
                    /\ Len(call.invocations) = f.failed
                    /\ call.invocations[f.failed].status = "error"
                    /\ shouldRetry(call, call.invocations[f.failed].error)
                    /\ call.lastError = call.invocations[f.failed].error
                    /\ call.waitsBegun = f.waitsDone
                    /\ call.waitsDone = f.waitsDone
                    /\ call.attempt = f.failed
                    /\ call.attempt < optionsOf(call).maxAttempts
                    /\ Len(stubs) = Len(wrapped) + Len(call.fresh) - 1

\* getStub has returned a stub for the second attempt and has thrown a
\* retryable error when called for the third
C24_Witness ==
    /\ Len(calls[1].fresh) = 2
    /\ calls[1].fresh[1].stub # 0
    /\ calls[1].fresh[2].stub = 0
    /\ isErrorRetryable(calls[1].outcome.error)
    /\ calls[1].outcome.error = calls[1].fresh[2].error
    /\ calls[1].pc = "rejected"
    /\ optionsOf(calls[1]).maxAttempts = 3

====
